---- MODULE Spec2Model ----
(***************************************************************************)
(* StreamDash (src/main.py): the price cache price_data, the lock          *)
(* data_lock that guards its writers and its snapshot, and the refresh     *)
(* cycle update_price_data as it is driven by the page script.             *)
(*                                                                         *)
(* The whole file is the page script.  Every browser session runs it from  *)
(* line 1 to the end on each event, in a thread and a namespace of its     *)
(* own, so the assignments of lines 11-12 are statements of every run: a   *)
(* run starts with an empty price_data and a new data_lock of its own.     *)
(* What outlives a run is st.session_state (lines 179-189), one per        *)
(* session.  A step of the model is one access to a store or one call of   *)
(* the data provider.  A script that runs is taken to run to its end (or   *)
(* to st.rerun()).                                                         *)
(*                                                                         *)
(* now is the latest reading of the wall clock: every datetime.now() of    *)
(* the code returns now or a later time and leaves it in now.              *)
(*                                                                         *)
(* Prices are whole dollar amounts, on which round(float(x), 2) of lines   *)
(* 34, 70 and 81 changes nothing; the volume of every quote is 0.          *)
(***************************************************************************)
EXTENDS Integers, Sequences, FiniteSets, TLC

(***************************************************************************)
(* Bounds of the model.                                                    *)
(***************************************************************************)
\* the capacity max_points handed to deque(maxlen=...): stands for the default 200
MaxPoints == 2
\* the longest historical series the provider returns
MaxHist == 3
\* the wall clock reads 0 to MaxTime
MaxTime == 1
\* refresh cycles (calls of update_price_data) started, over all sessions
MaxCycles == 2

Sessions == {1, 2}
Symbols == {"AAPL", "SPY"}
NoSession == 0
None == 0 - 1

\* st.session_state.symbols of line 182, cut to the first two tickers
DefaultSymbols == <<"AAPL", "SPY">>
\* what the text input of lines 199-203 can be made to hold
SymbolLists == {<<>>, <<"AAPL">>, <<"AAPL", "SPY">>}
\* the least refresh interval the slider of line 255 offers
MinInterval == 1
\* the slider of line 255, cut to its low end
RefreshIntervals == {MinInterval, MinInterval + 1}

\* the options of the period selectbox, line 217
Periods == {"1d", "5d", "1mo", "3mo", "6mo", "1y", "2y", "5y", "10y", "max"}
\* every interval of lines 224-230
Intervals == {"1m", "5m", "15m", "30m", "1h", "1d", "1wk", "1mo"}
\* the interval selectbox left as the script set it up
NoPick == "none"
\* fetch_historical_data is not being called
NoArgs == <<>>

VARIABLES
    price_data,          \* line 11: dict symbol -> deque, in insertion order; one per session's run
    data_lock,           \* line 12: per session's run, the session if its thread holds the lock, else NoSession
    now,                 \* the latest reading of datetime.now()
    symbols,             \* st.session_state.symbols, per session
    initialized_symbols, \* st.session_state.initialized_symbols, per session
    last_update,         \* st.session_state.last_update, per session
    auto_refresh,        \* st.session_state.auto_refresh, per session
    pc,                  \* where each session's script thread stands
    caller,              \* which of lines 264, 273, 284 called update_price_data
    idx,                 \* position of the loop of line 117 / 109 / 125
    historical_data,     \* line 102: the data points fetched for the symbol, <<>> if none
    new_prices,          \* line 122: the dict of live quotes, in insertion order
    df,                  \* line 278 / 285: the rows of the DataFrame
    cycles,              \* refresh cycles started
    inserted,            \* history: what was appended to the deque now at price_data[t][s]
    backfills,           \* history: how often s was seeded with history since session t tracks it
    hist_failed,         \* history: a historical fetch for s returned nothing since session t tracks it
    tracking,            \* history: s was "kept", "removed" or "readded" in session t's symbol list
    committed,           \* history: price_data[t] when its lock was last free
    historical_period,   \* st.session_state.historical_period, per session
    historical_interval, \* st.session_state.historical_interval, per session
    coerced,             \* history: line 235 ran in the session's latest script run
    hist_args,           \* history: (period, interval) of the running call of line 102
    live_info            \* history: what the provider answered to the call of line 122

vars == <<price_data, data_lock, now, symbols, initialized_symbols, last_update, auto_refresh,
          pc, caller, idx, historical_data, new_prices, df, cycles, inserted, backfills,
          hist_failed, tracking, committed, historical_period, historical_interval, coerced,
          hist_args, live_info>>

(***************************************************************************)
(* collections.deque(maxlen=n) and the dict price_data                     *)
(***************************************************************************)
\* deque(maxlen=max_points), line 105
Deque(key, max_points) == [key |-> key, maxlen |-> max_points, items |-> <<>>]

\* deque.append(x) as a list.append(x): nothing is dropped
DequeAppendUnbounded(d, x) == [d EXCEPT !.items = Append(d.items, x)]

\* deque.append(x) on a deque that drops its rightmost item when full
DequeAppendDropNewest(d, x) ==
    IF Len(d.items) >= d.maxlen
    THEN [d EXCEPT !.items = Append(SubSeq(d.items, 1, d.maxlen - 1), x)]
    ELSE [d EXCEPT !.items = Append(d.items, x)]

\* deque.append(x) as a deque.appendleft(x): a full deque drops its rightmost item
DequeAppendLeft(d, x) ==
    IF d.maxlen = 0 THEN d
    ELSE IF Len(d.items) >= d.maxlen
         THEN [d EXCEPT !.items = <<x>> \o SubSeq(d.items, 1, d.maxlen - 1)]
         ELSE [d EXCEPT !.items = <<x>> \o d.items]

\* deque.append(x), lines 110 and 127: a full deque drops its leftmost item
DequeAppend(d, x) ==
    IF d.maxlen = 0 THEN d
    ELSE IF Len(d.items) >= d.maxlen
         THEN [d EXCEPT !.items = Append(SubSeq(d.items, Len(d.items) - d.maxlen + 2, Len(d.items)), x)]
         ELSE [d EXCEPT !.items = Append(d.items, x)]

Keys(dict) == {dict[i].key : i \in DOMAIN dict}

\* symbol in price_data, lines 100, 118, 126
Has(dict, s) == s \in Keys(dict)

IndexOf(dict, s) == CHOOSE i \in DOMAIN dict : dict[i].key = s

\* price_data[symbol]
Get(dict, s) == dict[IndexOf(dict, s)]

\* price_data[symbol] = v: a new key goes last, an old key keeps its place
SetItem(dict, s, v) ==
    IF Has(dict, s) THEN [dict EXCEPT ![IndexOf(dict, s)] = v] ELSE Append(dict, v)

\* line 11 left out of the script: the dict of the run before is kept
ScriptGlobalsKept(dict) == dict

\* line 11, price_data = {}: what a script run starts with, whatever dict the
\* run before left
ScriptGlobals(dict) == <<>>

(***************************************************************************)
(* The data provider                                                       *)
(***************************************************************************)
\* ticker.history(period, interval) of line 23: it raises, or returns n rows.
\* The index of the rows is in the exchange's time zone and line 30 drops the
\* zone, so the time of the last bar is a wall time of the exchange: last is
\* that time on the scale of the server's clock, 0 (not after the start) or
\* MaxTime (ahead of the clock)
HistResponses == [raises : BOOLEAN, n : {0, 1, MaxHist}, Close : {100}, last : {0, MaxTime}]

\* lines 25-39: the data points of one symbol, oldest first; <<>> when the
\* call raised or the frame was empty (the symbol is then not a key of the result)
HistoricalPoints(symbol, resp) ==
    IF resp.raises THEN <<>>
    ELSE [j \in 1..resp.n |->
            [timestamp |-> j - resp.n + resp.last, price |-> resp.Close, symbol |-> symbol,
             volume |-> 0, is_historical |-> TRUE]]

\* ticker.info and the 1d/1m history of lines 64-77
InfoResponses ==
    { [raises |-> TRUE,  currentPrice |-> None, regularMarketPrice |-> None, lastClose |-> None],
      [raises |-> FALSE, currentPrice |-> 100,  regularMarketPrice |-> 101,  lastClose |-> 101],
      [raises |-> FALSE, currentPrice |-> None, regularMarketPrice |-> 101,  lastClose |-> 100],
      [raises |-> FALSE, currentPrice |-> 0,    regularMarketPrice |-> None, lastClose |-> 100],
      [raises |-> FALSE, currentPrice |-> None, regularMarketPrice |-> 0,    lastClose |-> None] }

Truthy(v) == v # None /\ v # 0

\* lines 65-85 with regularMarketPrice asked before currentPrice
LivePriceRegularFirst(info) ==
    IF info.raises THEN None
    ELSE IF Truthy(info.regularMarketPrice) THEN info.regularMarketPrice
    ELSE IF Truthy(info.currentPrice) THEN info.currentPrice
    ELSE info.lastClose

\* lines 65-85: the price of the live quote, None when the symbol yields none
LivePrice(info) ==
    IF info.raises THEN None
    ELSE IF Truthy(info.currentPrice) THEN info.currentPrice
    ELSE IF Truthy(info.regularMarketPrice) THEN info.regularMarketPrice
    ELSE info.lastClose

\* the quote of lines 68-74 tagged with the first ticker whatever the symbol
LiveQuoteFirstTag(symbol, price, current_time) ==
    [timestamp |-> current_time, price |-> price, symbol |-> "AAPL",
     volume |-> 0, is_historical |-> FALSE]

\* lines 68-74 and 79-85
LiveQuote(symbol, price, current_time) ==
    [timestamp |-> current_time, price |-> price, symbol |-> symbol,
     volume |-> 0, is_historical |-> FALSE]

\* lines 60-90: the dict prices, built symbol by symbol; an entry is a key
\* and the quote stored under it
RECURSIVE LivePrices(_, _, _, _)
LivePrices(syms, infos, current_time, acc) ==
    IF syms = <<>> THEN acc
    ELSE LET s == Head(syms)
             p == LivePrice(infos[s])
             q == [key |-> s, data |-> LiveQuote(s, p, current_time)]
             next == IF p = None THEN acc ELSE SetItem(acc, s, q)
         IN  LivePrices(Tail(syms), infos, current_time, next)

\* fetch_live_data giving up the whole batch when one symbol yields no price
FetchLiveDataAllOrNothing(syms, fails, infos, current_time) ==
    IF fails \/ \E i \in DOMAIN syms : LivePrice(infos[syms[i]]) = None THEN <<>>
    ELSE LivePrices(syms, infos, current_time, <<>>)

\* lines 53-94: the dict fetch_live_data returns: {} when the call fails as a
\* whole (line 92), else the quotes of the symbols that yield a price
FetchLiveData(syms, fails, infos, current_time) ==
    IF fails THEN <<>> ELSE LivePrices(syms, infos, current_time, <<>>)

\* the provider was not asked
NoInfo ==
    [fetched |-> FALSE, fails |-> FALSE,
     info |-> [s \in Symbols |-> [raises |-> TRUE, currentPrice |-> None,
                                  regularMarketPrice |-> None, lastClose |-> None]]]

\* lines 158-170: the rows of the DataFrame, deque after deque
RECURSIVE Rows(_)
Rows(dict) == IF dict = <<>> THEN <<>> ELSE Head(dict).items \o Rows(Tail(dict))

(***************************************************************************)
(* The state after the sessions are opened: st.session_state as lines      *)
(* 179-189 set it up, and no script run under way.                         *)
(***************************************************************************)
Init ==
    /\ price_data = [t \in Sessions |-> <<>>]
    /\ data_lock = [t \in Sessions |-> NoSession]
    /\ now = 0
    /\ symbols = [t \in Sessions |-> DefaultSymbols]
    /\ initialized_symbols = [t \in Sessions |-> {}]
    /\ last_update = [t \in Sessions |-> 0]
    /\ auto_refresh = [t \in Sessions |-> TRUE]
    /\ pc = [t \in Sessions |-> "idle"]
    /\ caller = [t \in Sessions |-> "none"]
    /\ idx = [t \in Sessions |-> 1]
    /\ historical_data = [t \in Sessions |-> <<>>]
    /\ new_prices = [t \in Sessions |-> <<>>]
    /\ df = [t \in Sessions |-> <<>>]
    /\ cycles = 0
    /\ inserted = [t \in Sessions |-> [s \in Symbols |-> <<>>]]
    /\ backfills = [t \in Sessions |-> [s \in Symbols |-> 0]]
    /\ hist_failed = [t \in Sessions |-> [s \in Symbols |-> FALSE]]
    /\ tracking = [t \in Sessions |-> [s \in Symbols |-> "kept"]]
    /\ committed = [t \in Sessions |-> <<>>]
    /\ historical_period = [t \in Sessions |-> "5d"]
    /\ historical_interval = [t \in Sessions |-> "1m"]
    /\ coerced = [t \in Sessions |-> FALSE]
    /\ hist_args = [t \in Sessions |-> NoArgs]
    /\ live_info = [t \in Sessions |-> NoInfo]

\* what the next datetime.now() can return
Clock == {c \in now..(now + 1) : c <= MaxTime}

\* with data_lock: (lines 104, 124, 154) can be entered by t's thread
CanAcquire(t) == data_lock[t] = NoSession

\* the seeding loop of lines 109-110 moved out of the with block of line 104
HeldOutsideBlock(t) == NoSession

\* line 104, with data_lock: over lines 105-110: who holds the lock of t's
\* run while t's thread is inside the block
Held(t) == t

\* the symbol the loop of line 117 stands at
Cur(t) == symbols[t][idx[t]]

Range(seq) == {seq[i] : i \in DOMAIN seq}

(***************************************************************************)
(* The page script, lines 11-12 and 199-275: the globals are bound, the    *)
(* widgets are read, a changed symbol list is stored, and the script       *)
(* decides whether a refresh cycle starts.                                 *)
(***************************************************************************)
\* lines 223-231: the intervals offered for a period
interval_options(period) ==
    IF period \in {"1d", "5d"} THEN {"1m", "5m", "15m", "30m", "1h"}
    ELSE IF period \in {"1mo", "3mo"} THEN {"15m", "30m", "1h", "1d"}
    ELSE {"1h", "1d", "1wk", "1mo"}

\* lines 223-231
default_interval(period) ==
    IF period \in {"1d", "5d"} THEN "15m"
    ELSE IF period \in {"1mo", "3mo"} THEN "1h"
    ELSE "1d"

\* lines 234-235 left out: the stored interval is kept whatever the period
CoerceIntervalKeep(period, interval) == interval

\* lines 234-235: the stored interval as the interval selectbox is set up with it
CoerceInterval(period, interval) ==
    IF interval \notin interval_options(period) THEN default_interval(period) ELSE interval

\* A script run of session t starts and comes to line 276.  Lines 11-12 give
\* the run an empty price_data and a new, free data_lock.  Lines 215-242: the
\* period selectbox returns period; the interval selectbox returns what the
\* user picks of its options, or the interval it was set up with.
\* (last_historical_period and last_historical_interval, lines 248-251, only
\* decide whether a note is shown.)  Lines 199-211 store a changed symbol
\* list, line 259 the checkbox; lines 261-275 start a cycle on the button,
\* or, with auto-refresh on, when the clock read at line 270 is a refresh
\* interval past last_update.
RunScript(t, new_symbols, period, pick, button, checkbox, refresh_interval, time) ==
    /\ pc[t] = "idle"
    /\ pick = NoPick \/ pick \in interval_options(period)
    /\ price_data' = [price_data EXCEPT ![t] = ScriptGlobals(@)]
    /\ data_lock' = [data_lock EXCEPT ![t] = NoSession]
    /\ committed' = [committed EXCEPT ![t] = price_data'[t]]
    /\ inserted' = [inserted EXCEPT ![t] =
                      [s \in Symbols |-> IF Has(price_data'[t], s) THEN @[s] ELSE <<>>]]
    /\ historical_period' = [historical_period EXCEPT ![t] = period]
    /\ historical_interval' = [historical_interval EXCEPT ![t] =
                                 IF pick = NoPick THEN CoerceInterval(period, @) ELSE pick]
    /\ coerced' = [coerced EXCEPT ![t] = historical_interval[t] \notin interval_options(period)]
    /\ symbols' = [symbols EXCEPT ![t] = new_symbols]
    /\ initialized_symbols' = [initialized_symbols EXCEPT ![t] = IF new_symbols # symbols[t] THEN {} ELSE @]
    /\ tracking' = [tracking EXCEPT ![t] =
                      [s \in Symbols |->
                          IF s \notin Range(new_symbols) THEN "removed"
                          ELSE IF s \notin Range(symbols[t]) THEN "readded"
                          ELSE @[s]]]
    /\ backfills' = [backfills EXCEPT ![t] =
                       [s \in Symbols |-> IF s \in Range(new_symbols) THEN @[s] ELSE 0]]
    /\ hist_failed' = [hist_failed EXCEPT ![t] =
                         [s \in Symbols |-> IF s \in Range(new_symbols) THEN @[s] ELSE FALSE]]
    /\ auto_refresh' = [auto_refresh EXCEPT ![t] = checkbox]
    /\ IF button
       THEN /\ cycles < MaxCycles
            /\ cycles' = cycles + 1
            /\ now' = now
            /\ pc' = [pc EXCEPT ![t] = "upd_loop"]
            /\ caller' = [caller EXCEPT ![t] = "manual"]
       ELSE IF checkbox /\ time - last_update[t] >= refresh_interval
       THEN /\ cycles < MaxCycles
            /\ cycles' = cycles + 1
            /\ now' = time
            /\ pc' = [pc EXCEPT ![t] = "upd_loop"]
            /\ caller' = [caller EXCEPT ![t] = "auto"]
       ELSE /\ cycles' = cycles
            /\ now' = IF checkbox THEN time ELSE now
            /\ pc' = [pc EXCEPT ![t] = "get_df"]
            /\ caller' = [caller EXCEPT ![t] = "none"]
    /\ UNCHANGED <<last_update, idx, historical_data, new_prices, df, hist_args, live_info>>

(***************************************************************************)
(* update_price_data, lines 117-119, and initialize_symbol_data, lines     *)
(* 96-110                                                                  *)
(***************************************************************************)
\* symbol not in price_data, lines 100 and 118
Missing(t, s) == ~Has(price_data[t], s)

\* lines 117-118 and 100-102: a symbol that is a key is passed over; for one
\* that is not, initialize_symbol_data is called and fetches its history
\* with the defaults of line 14
UpdLoop(t, resp) ==
    /\ pc[t] = "upd_loop"
    /\ idx[t] <= Len(symbols[t])
    /\ IF Missing(t, Cur(t))
       THEN /\ hist_args' = [hist_args EXCEPT ![t] = <<"5d", "15m">>]
            /\ historical_data' = [historical_data EXCEPT ![t] = HistoricalPoints(Cur(t), resp)]
            /\ hist_failed' = [hist_failed EXCEPT ![t][Cur(t)] =
                                 @ \/ HistoricalPoints(Cur(t), resp) = <<>>]
            /\ pc' = [pc EXCEPT ![t] = "init_create"]
            /\ idx' = idx
       ELSE /\ hist_args' = hist_args
            /\ historical_data' = historical_data
            /\ hist_failed' = hist_failed
            /\ pc' = pc
            /\ idx' = [idx EXCEPT ![t] = @ + 1]
    /\ UNCHANGED <<price_data, data_lock, now, symbols, initialized_symbols, last_update,
                   auto_refresh, caller, new_prices, df, cycles, inserted, backfills,
                   tracking, committed, historical_period, historical_interval, coerced,
                   live_info>>

\* lines 104-105: the lock is taken and the symbol gets a new, empty deque;
\* with no historical data (line 107) the block ends here
InitCreate(t) ==
    /\ pc[t] = "init_create"
    /\ CanAcquire(t)
    /\ price_data' = [price_data EXCEPT ![t] = SetItem(@, Cur(t), Deque(Cur(t), MaxPoints))]
    /\ inserted' = [inserted EXCEPT ![t][Cur(t)] = <<>>]
    /\ IF historical_data[t] = <<>>
       THEN /\ data_lock' = [data_lock EXCEPT ![t] = NoSession]
            /\ committed' = [committed EXCEPT ![t] = price_data'[t]]
            /\ backfills' = backfills
            /\ pc' = [pc EXCEPT ![t] = "upd_loop"]
            /\ idx' = [idx EXCEPT ![t] = @ + 1]
            /\ hist_args' = [hist_args EXCEPT ![t] = NoArgs]
       ELSE /\ data_lock' = [data_lock EXCEPT ![t] = Held(t)]
            /\ committed' = committed
            /\ backfills' = [backfills EXCEPT ![t][Cur(t)] = @ + 1]
            /\ pc' = [pc EXCEPT ![t] = "init_seed"]
            /\ idx' = idx
            /\ hist_args' = hist_args
    /\ UNCHANGED <<now, symbols, initialized_symbols, last_update, auto_refresh, caller,
                   historical_data, new_prices, df, cycles, hist_failed, tracking,
                   historical_period, historical_interval, coerced, live_info>>

\* lines 109-110: one data point is appended, oldest first; after the last
\* one the lock is released
InitSeed(t) ==
    /\ pc[t] = "init_seed"
    /\ data_lock[t] = Held(t)
    /\ LET s == Cur(t)
           data_point == Head(historical_data[t])
       IN  /\ price_data' = [price_data EXCEPT ![t] =
                               SetItem(@, s, DequeAppend(Get(@, s), data_point))]
           /\ inserted' = [inserted EXCEPT ![t][s] = Append(@, data_point)]
    /\ historical_data' = [historical_data EXCEPT ![t] = Tail(@)]
    /\ IF Len(historical_data[t]) = 1
       THEN /\ data_lock' = [data_lock EXCEPT ![t] = NoSession]
            /\ committed' = [committed EXCEPT ![t] = price_data'[t]]
            /\ pc' = [pc EXCEPT ![t] = "upd_loop"]
            /\ idx' = [idx EXCEPT ![t] = @ + 1]
            /\ hist_args' = [hist_args EXCEPT ![t] = NoArgs]
       ELSE UNCHANGED <<data_lock, committed, pc, idx, hist_args>>
    /\ UNCHANGED <<now, symbols, initialized_symbols, last_update, auto_refresh, caller,
                   new_prices, df, cycles, backfills, hist_failed, tracking,
                   historical_period, historical_interval, coerced, live_info>>

(***************************************************************************)
(* update_price_data, lines 121-127: the live step                         *)
(***************************************************************************)
\* the loop of line 117 is through; line 122: fetch_live_data raises as a
\* whole (line 92) or reads the clock (line 57) and asks symbol by symbol
FetchLive(t, fails, infos, time) ==
    /\ pc[t] = "upd_loop"
    /\ idx[t] > Len(symbols[t])
    /\ new_prices' = [new_prices EXCEPT ![t] = FetchLiveData(symbols[t], fails, infos, time)]
    /\ live_info' = [live_info EXCEPT ![t] =
                       IF fails THEN [NoInfo EXCEPT !.fetched = TRUE, !.fails = TRUE]
                       ELSE [fetched |-> TRUE, fails |-> FALSE, info |-> infos]]
    /\ now' = IF fails THEN now ELSE time
    /\ pc' = [pc EXCEPT ![t] = "live_append"]
    /\ UNCHANGED <<price_data, data_lock, symbols, initialized_symbols, last_update,
                   auto_refresh, caller, idx, historical_data, df, cycles, inserted,
                   backfills, hist_failed, tracking, committed, historical_period,
                   historical_interval, coerced, hist_args>>

\* lines 125-127: the quotes of symbols that are keys are appended, in the
\* order of the dict
RECURSIVE AppendPrices(_, _)
AppendPrices(dict, prices) ==
    IF prices = <<>> THEN dict
    ELSE LET data == Head(prices).data
             s == Head(prices).key
         IN  AppendPrices(IF Has(dict, s) THEN SetItem(dict, s, DequeAppend(Get(dict, s), data))
                          ELSE dict,
                          Tail(prices))

\* the quotes of new_prices that lines 126-127 append to the deque of s
RECURSIVE QuotesOf(_, _)
QuotesOf(prices, s) ==
    IF prices = <<>> THEN <<>>
    ELSE (IF Head(prices).key = s THEN <<Head(prices).data>> ELSE <<>>) \o QuotesOf(Tail(prices), s)

\* lines 124-127 in a cycle that goes no further when no quote was fetched
LiveAppendUnlessEmpty(t) ==
    /\ pc[t] = "live_append"
    /\ new_prices[t] # <<>>
    /\ CanAcquire(t)
    /\ price_data' = [price_data EXCEPT ![t] = AppendPrices(@, new_prices[t])]
    /\ inserted' = [inserted EXCEPT ![t] =
                      [s \in Symbols |->
                          IF Has(price_data[t], s) THEN @[s] \o QuotesOf(new_prices[t], s)
                          ELSE @[s]]]
    /\ new_prices' = [new_prices EXCEPT ![t] = <<>>]
    /\ data_lock' = [data_lock EXCEPT ![t] = NoSession]
    /\ committed' = [committed EXCEPT ![t] = price_data'[t]]
    /\ pc' = [pc EXCEPT ![t] = "upd_done"]
    /\ live_info' = [live_info EXCEPT ![t] = NoInfo]
    /\ UNCHANGED <<now, symbols, initialized_symbols, last_update, auto_refresh, caller, idx,
                   historical_data, df, cycles, backfills, hist_failed, tracking,
                   historical_period, historical_interval, coerced, hist_args>>

\* lines 124-127: the whole block, one step under the lock
LiveAppend(t) ==
    /\ pc[t] = "live_append"
    /\ CanAcquire(t)
    /\ price_data' = [price_data EXCEPT ![t] = AppendPrices(@, new_prices[t])]
    /\ inserted' = [inserted EXCEPT ![t] =
                      [s \in Symbols |->
                          IF Has(price_data[t], s) THEN @[s] \o QuotesOf(new_prices[t], s)
                          ELSE @[s]]]
    /\ new_prices' = [new_prices EXCEPT ![t] = <<>>]
    /\ data_lock' = [data_lock EXCEPT ![t] = NoSession]
    /\ committed' = [committed EXCEPT ![t] = price_data'[t]]
    /\ pc' = [pc EXCEPT ![t] = "upd_done"]
    /\ live_info' = [live_info EXCEPT ![t] = NoInfo]
    /\ UNCHANGED <<now, symbols, initialized_symbols, last_update, auto_refresh, caller, idx,
                   historical_data, df, cycles, backfills, hist_failed, tracking,
                   historical_period, historical_interval, coerced, hist_args>>

(***************************************************************************)
(* The page script after the cycle, and get_dataframe                      *)
(***************************************************************************)
\* line 285: after the cycle of line 284 the snapshot is taken again, under
\* the lock
GetDataframeAgain(t) ==
    /\ pc[t] = "upd_done"
    /\ caller[t] = "initial"
    /\ CanAcquire(t)
    /\ df' = [df EXCEPT ![t] = Rows(price_data[t])]
    /\ pc' = [pc EXCEPT ![t] = "stamp"]
    /\ UNCHANGED <<price_data, data_lock, now, symbols, initialized_symbols, last_update,
                   auto_refresh, caller, idx, historical_data, new_prices, cycles, inserted,
                   backfills, hist_failed, tracking, committed, historical_period,
                   historical_interval, coerced, hist_args, live_info>>

\* lines 265-266 and 274-275: the clock is read, last_update is set and
\* st.rerun() ends the run; line 286: the clock is read, last_update is set
\* and the run goes on to draw the page
AfterUpdate(t, time) ==
    /\ \/ pc[t] = "upd_done" /\ caller[t] # "initial"
       \/ pc[t] = "stamp"
    /\ now' = time
    /\ last_update' = [last_update EXCEPT ![t] = time]
    /\ pc' = [pc EXCEPT ![t] = IF caller[t] = "initial" THEN "render" ELSE "idle"]
    /\ caller' = [caller EXCEPT ![t] = IF caller[t] = "initial" THEN @ ELSE "none"]
    /\ idx' = [idx EXCEPT ![t] = 1]
    /\ UNCHANGED <<price_data, data_lock, symbols, initialized_symbols, auto_refresh,
                   historical_data, new_prices, df, cycles, inserted, backfills,
                   hist_failed, tracking, committed, historical_period, historical_interval,
                   coerced, hist_args, live_info>>

\* lines 278-284: get_dataframe under the lock; an empty frame starts a cycle
GetDataframe(t) ==
    /\ pc[t] = "get_df"
    /\ CanAcquire(t)
    /\ df' = [df EXCEPT ![t] = Rows(price_data[t])]
    /\ IF Rows(price_data[t]) = <<>>
       THEN /\ cycles < MaxCycles
            /\ cycles' = cycles + 1
            /\ pc' = [pc EXCEPT ![t] = "upd_loop"]
            /\ caller' = [caller EXCEPT ![t] = "initial"]
       ELSE /\ cycles' = cycles
            /\ pc' = [pc EXCEPT ![t] = "render"]
            /\ caller' = caller
    /\ UNCHANGED <<price_data, data_lock, now, symbols, initialized_symbols, last_update,
                   auto_refresh, idx, historical_data, new_prices, inserted, backfills,
                   hist_failed, tracking, committed, historical_period, historical_interval,
                   coerced, hist_args, live_info>>

\* lines 288-436: the page is drawn from df and the run ends; with
\* auto-refresh on, line 397 reads the clock for the countdown (and line 434
\* sleeps half a second); nothing is stored
Render(t, time) ==
    /\ pc[t] = "render"
    /\ now' = IF auto_refresh[t] THEN time ELSE now
    /\ pc' = [pc EXCEPT ![t] = "idle"]
    /\ df' = [df EXCEPT ![t] = <<>>]
    /\ caller' = [caller EXCEPT ![t] = "none"]
    /\ idx' = [idx EXCEPT ![t] = 1]
    /\ UNCHANGED <<price_data, data_lock, symbols, initialized_symbols, last_update,
                   auto_refresh, historical_data, new_prices, cycles, inserted, backfills,
                   hist_failed, tracking, committed, historical_period, historical_interval,
                   coerced, hist_args, live_info>>

(***************************************************************************)
(* Spec: one browser session is open.  It edits its symbol list and leaves *)
(* the historical settings alone, the provider answers in every way with   *)
(* bars that are not ahead of the server's clock, and every reading of the *)
(* clock may find it advanced.                                             *)
(***************************************************************************)
PastHist == {r \in HistResponses : r.last = 0}

Next ==
    \/ \E new_symbols \in SymbolLists, button \in BOOLEAN, checkbox \in BOOLEAN,
          refresh_interval \in RefreshIntervals, time \in Clock :
            RunScript(1, new_symbols, historical_period[1], NoPick, button, checkbox,
                      refresh_interval, time)
    \/ \E resp \in PastHist : UpdLoop(1, resp)
    \/ InitCreate(1)
    \/ InitSeed(1)
    \/ \E fails \in BOOLEAN, info \in [Symbols -> InfoResponses], time \in Clock :
            FetchLive(1, fails, info, time)
    \/ LiveAppend(1)
    \/ GetDataframeAgain(1)
    \/ \E time \in Clock : AfterUpdate(1, time)
    \/ GetDataframe(1)
    \/ \E time \in Clock : Render(1, time)

Spec == Init /\ [][Next]_vars

(***************************************************************************)
(* SpecLive: one browser session, its script thread scheduled fairly.  The *)
(* session keeps its symbol list; for each symbol the provider raises or   *)
(* answers in full, in the historical and in the live fetch, and the last  *)
(* bar of a history may be ahead of the server's clock; the clock is seen  *)
(* to advance where a cycle's end is recorded (lines 265, 274, 286).       *)
(* A thread that is inside update_price_data, or at the statements that    *)
(* follow the call, goes on: every call of the provider returns or raises, *)
(* and the lock of the run is free whenever its one thread asks for it.    *)
(***************************************************************************)
LiveHist == {r \in HistResponses : r.n = MaxHist}
LiveInfos == {r \in InfoResponses : r.raises \/ Truthy(r.currentPrice)}

CycleStep ==
    \/ \E resp \in LiveHist : UpdLoop(1, resp)
    \/ InitCreate(1)
    \/ InitSeed(1)
    \/ \E fails \in BOOLEAN, info \in [Symbols -> LiveInfos] : FetchLive(1, fails, info, now)
    \/ LiveAppend(1)
    \/ GetDataframeAgain(1)
    \/ \E time \in Clock : AfterUpdate(1, time)

NextLive ==
    \/ \E button \in BOOLEAN, checkbox \in BOOLEAN, refresh_interval \in RefreshIntervals :
            RunScript(1, symbols[1], historical_period[1], NoPick, button, checkbox,
                      refresh_interval, now)
    \/ CycleStep
    \/ GetDataframe(1)
    \/ Render(1, now)

SpecLive == Init /\ [][NextLive]_vars /\ WF_vars(CycleStep)

(***************************************************************************)
(* SpecSessions: two browser sessions are open and their script threads    *)
(* interleave.  Both keep the symbol list they start with, the provider    *)
(* has a full history or none and always a quote, and the clock stands.    *)
(***************************************************************************)
SessionHist == {r \in HistResponses : ~r.raises /\ r.n \in {0, MaxHist} /\ r.last = 0}
SessionInfos == {r \in InfoResponses : Truthy(r.currentPrice)}

NextSessions ==
    \/ \E t \in Sessions, button \in BOOLEAN, checkbox \in BOOLEAN,
          refresh_interval \in RefreshIntervals :
            RunScript(t, symbols[t], historical_period[t], NoPick, button, checkbox,
                      refresh_interval, now)
    \/ \E t \in Sessions, resp \in SessionHist : UpdLoop(t, resp)
    \/ \E t \in Sessions : InitCreate(t)
    \/ \E t \in Sessions : InitSeed(t)
    \/ \E t \in Sessions, fails \in BOOLEAN, info \in [Symbols -> SessionInfos] :
            FetchLive(t, fails, info, now)
    \/ \E t \in Sessions : LiveAppend(t)
    \/ \E t \in Sessions : GetDataframeAgain(t)
    \/ \E t \in Sessions : AfterUpdate(t, now)
    \/ \E t \in Sessions : GetDataframe(t)
    \/ \E t \in Sessions : Render(t, now)

SpecSessions == Init /\ [][NextSessions]_vars

(***************************************************************************)
(* SpecSettings: one browser session is open and works the two selectboxes *)
(* of the historical settings in every way.  It keeps its symbol list, the *)
(* provider answers as in SpecSessions, and the clock stands.              *)
(***************************************************************************)
NextSettings ==
    \/ \E period \in Periods, pick \in Intervals \cup {NoPick}, button \in BOOLEAN :
            RunScript(1, symbols[1], period, pick, button, auto_refresh[1], MinInterval, now)
    \/ \E resp \in SessionHist : UpdLoop(1, resp)
    \/ InitCreate(1)
    \/ InitSeed(1)
    \/ \E fails \in BOOLEAN, info \in [Symbols -> SessionInfos] : FetchLive(1, fails, info, now)
    \/ LiveAppend(1)
    \/ GetDataframeAgain(1)
    \/ AfterUpdate(1, now)
    \/ GetDataframe(1)
    \/ Render(1, now)

SpecSettings == Init /\ [][NextSettings]_vars

(***************************************************************************)
(* Properties                                                              *)
(***************************************************************************)
\* the last n elements of seq
LastN(seq, n) == SubSeq(seq, Len(seq) - n + 1, Len(seq))

Min(a, b) == IF a <= b THEN a ELSE b

\* the step appends exactly one observation to the deque at price_data[t][s]
AppendsOne(t, s) ==
    /\ Has(price_data[t], s)
    /\ Has(price_data'[t], s)
    /\ Len(inserted'[t][s]) = Len(inserted[t][s]) + 1

\* C1: every deque holds at most maxlen observations, maxlen being the
\* capacity it was created with, and an append to a full deque removes
\* exactly one observation, the oldest: the others move up one place and the
\* new one is last.
C1_BoundedFifo ==
    [][\A t \in Sessions : \A s \in Keys(price_data'[t]) :
          LET new == Get(price_data'[t], s)
          IN  /\ Len(new.items) <= new.maxlen
              /\ AppendsOne(t, s) =>
                    LET old == Get(price_data[t], s)
                    IN  /\ new.maxlen = old.maxlen
                        /\ Len(old.items) = old.maxlen =>
                              /\ Len(new.items) = old.maxlen
                              /\ \A i \in 1..(old.maxlen - 1) : new.items[i] = old.items[i + 1]
                              /\ new.items[old.maxlen] = inserted'[t][s][Len(inserted'[t][s])]]_vars

\* C1 witness: a live quote has been appended to a deque that was full
C1_Witness ==
    \E t \in Sessions : \E s \in Keys(price_data[t]) :
        LET d == Get(price_data[t], s)
        IN  /\ Len(d.items) = d.maxlen
            /\ Len(inserted[t][s]) > d.maxlen
            /\ ~d.items[d.maxlen].is_historical

\* C2: the deque of a symbol holds the last min(k, maxlen) of the k
\* observations appended to it (the historical seed, then the live quotes),
\* in the order they arrived.
C2_LastNInArrivalOrder ==
    \A t \in Sessions : \A s \in Keys(price_data[t]) :
        LET d == Get(price_data[t], s)
        IN  d.items = LastN(inserted[t][s], Min(Len(inserted[t][s]), d.maxlen))

\* C2 witness: a seed longer than the capacity was cut to its latest points
\* and a live quote was appended after it
C2_Witness ==
    \E t \in Sessions : \E s \in Keys(price_data[t]) :
        LET d == Get(price_data[t], s)
            ins == inserted[t][s]
        IN  /\ Cardinality({i \in DOMAIN ins : ins[i].is_historical}) > d.maxlen
            /\ ~ins[Len(ins)].is_historical
            /\ d.items[1].is_historical

\* historical observations have been appended to the deque of s
Seeded(t, s) == \E i \in DOMAIN inserted[t][s] : inserted[t][s][i].is_historical

\* C3: while a session tracks a symbol, the symbol's history is fetched and
\* merged into a deque at most once, however many cycles follow.
C3_BackfillOnce ==
    \A t \in Sessions : \A s \in Symbols : backfills[t][s] <= 1

\* session t takes a step of the loop of lines 117-119
LoopStep(t) ==
    /\ pc[t] = "upd_loop"
    /\ idx[t] <= Len(symbols[t])
    /\ pc'[t] # pc[t] \/ idx'[t] # idx[t]

\* C4: a historical fetch that returns nothing seeds nothing, and a tracked
\* symbol whose historical fetch returned nothing has its history fetched
\* again when the loop of a later cycle comes to it.
C4_RetryAfterFailure ==
    [][\A t \in Sessions :
          /\ pc[t] = "init_create" /\ historical_data[t] = <<>> /\ pc'[t] # pc[t] =>
                inserted'[t][Cur(t)] = <<>> /\ backfills'[t] = backfills[t]
          /\ LoopStep(t) /\ hist_failed[t][Cur(t)] => pc'[t] = "init_create"]_vars

\* C4 witness: a symbol whose historical fetch returned nothing in an earlier
\* cycle has its deque seeded by a later one
C4_Witness ==
    \E t \in Sessions : \E s \in Range(symbols[t]) :
        /\ hist_failed[t][s]
        /\ Seeded(t, s)
        /\ data_lock[t] = NoSession

\* C5: between the lock's critical sections, a tracked symbol is passed over
\* by the backfill (it is a key of price_data) if and only if a deque of the
\* symbol has been seeded with historical observations since it is tracked.
C5_CompletedIffSeeded ==
    \A t \in Sessions :
        data_lock[t] = NoSession =>
            \A s \in Range(symbols[t]) : Has(price_data[t], s) <=> backfills[t][s] >= 1

\* C6: when a symbol comes back into the tracked list, no deque is left of
\* it, and the loop of the next cycle fetches its history and gives it a new,
\* empty deque of the capacity max_points.
C6_ReaddDropsBuffer ==
    [][\A t \in Sessions : \A s \in Symbols :
          /\ s \notin Range(symbols[t]) /\ s \in Range(symbols'[t]) => ~Has(price_data'[t], s)
          /\ tracking[t][s] = "readded" /\ LoopStep(t) /\ Cur(t) = s => pc'[t] = "init_create"
          /\ tracking[t][s] = "readded" /\ pc[t] = "init_create" /\ Cur(t) = s /\ pc'[t] # pc[t] =>
                Get(price_data'[t], s) = Deque(s, MaxPoints)]_vars

\* C6 witness: a symbol that was taken off the list and put back has been
\* seeded by the cycle that followed
C6_Witness ==
    \E t \in Sessions : \E s \in Symbols :
        /\ tracking[t][s] = "readded"
        /\ Seeded(t, s)
        /\ pc[t] = "upd_done"

\* how often x occurs in seq
Count(seq, x) == Cardinality({i \in DOMAIN seq : seq[i] = x})

\* how often x occurs in the deques of dict
Stored(dict, x) ==
    Cardinality({p \in UNION {{<<i, j>> : j \in DOMAIN dict[i].items} : i \in DOMAIN dict} :
                   dict[p[1]].items[p[2]] = x})

\* every observation in a deque
Observations(dict) == UNION {Range(dict[i].items) : i \in DOMAIN dict}

\* C7: an observation stored under symbol s is tagged s, and the snapshot
\* the page is drawn from holds every stored observation as often as the
\* deques hold it, and nothing else.
C7_SnapshotIsUnion ==
    \A t \in Sessions :
        /\ \A i \in DOMAIN price_data[t] : \A x \in Range(price_data[t][i].items) :
                x.symbol = price_data[t][i].key
        /\ pc[t] \in {"stamp", "render"} =>
                \A x \in Range(df[t]) \cup Observations(price_data[t]) :
                    Count(df[t], x) = Stored(price_data[t], x)

\* C7 witness: a snapshot with historical and live observations of two symbols
C7_Witness ==
    \E t \in Sessions :
        /\ pc[t] = "render"
        /\ \A s \in Symbols : \E i, j \in DOMAIN df[t] :
              /\ df[t][i].symbol = s /\ df[t][i].is_historical
              /\ df[t][j].symbol = s /\ ~df[t][j].is_historical

\* C8: the snapshot the page is drawn from holds observations of the
\* session's tracked symbols only.
C8_SnapshotTrackedOnly ==
    \A t \in Sessions : pc[t] \in {"stamp", "render"} =>
        \A i \in DOMAIN df[t] : df[t][i].symbol \in Range(symbols[t])

\* C8 witness: the page is drawn from a snapshot with observations, after a
\* symbol was taken off the list
C8_Witness ==
    \E t \in Sessions : \E s \in Symbols :
        /\ pc[t] = "render"
        /\ tracking[t][s] = "removed"
        /\ df[t] # <<>>

\* session t writes to price_data in this step
Mutates(t) ==
    /\ pc[t] \in {"init_create", "init_seed", "live_append"}
    /\ pc'[t] # pc[t] \/ historical_data'[t] # historical_data[t]

\* session t takes its snapshot in this step
Snapshots(t) ==
    \/ pc[t] = "get_df" /\ pc'[t] # "get_df"
    \/ pc[t] = "upd_done" /\ pc'[t] = "stamp"

\* C9: a deque that is being seeded is inside the critical section: the lock
\* of the run is held from the deque's creation to its last historical
\* point; a write begins and a snapshot is taken only when the lock is free,
\* and the rows of a snapshot are those of price_data as the last critical
\* section left it, whatever the other sessions' cycles do meanwhile.
C9_NoTornSnapshot ==
    [][\A t \in Sessions :
          /\ pc'[t] = "init_seed" => data_lock'[t] = t
          /\ Mutates(t) /\ pc[t] # "init_seed" => data_lock[t] = NoSession
          /\ Snapshots(t) => data_lock[t] = NoSession /\ df'[t] = Rows(committed[t])]_vars

\* C9 witness: a session has taken a snapshot of a seeded deque while the
\* other session is seeding a deque of its own and holds its lock
C9_Witness ==
    \E t, u \in Sessions :
        /\ t # u
        /\ pc[u] = "init_seed"
        /\ inserted[u][Cur(u)] # <<>>
        /\ pc[t] = "render"
        /\ Len(df[t]) = MaxPoints

\* session t is inside update_price_data
InCycle(t) == pc[t] \in {"upd_loop", "init_create", "init_seed", "live_append"}

\* C10: at no time are two refresh cycles in progress.
C10_OneCycleAtATime ==
    Cardinality({t \in Sessions : InCycle(t)}) <= 1

\* session t runs the locked block of lines 124-127 in this step
LiveStep(t) == pc[t] = "live_append" /\ pc'[t] = "upd_done"

\* the provider gave a price for s in the live fetch of session t's cycle
Quoted(t, s) ==
    /\ \E i \in DOMAIN symbols[t] : symbols[t][i] = s
    /\ ~live_info[t].fails
    /\ LivePrice(live_info[t].info[s]) # None

\* C11: in the live step of a cycle, every tracked symbol the provider gave
\* a price for gains exactly one observation, a live one, which is the last
\* of its deque; the deque of every other symbol is as it was, whatever the
\* other symbols of the batch did.
C11_LiveFailureIsolation ==
    [][\A t \in Sessions : LiveStep(t) =>
          \A s \in Symbols :
              LET old == inserted[t][s]
                  new == inserted'[t][s]
              IN  IF Quoted(t, s)
                  THEN /\ Has(price_data[t], s) /\ Has(price_data'[t], s)
                       /\ Len(new) = Len(old) + 1
                       /\ SubSeq(new, 1, Len(old)) = old
                       /\ LET q == new[Len(new)]
                              d == Get(price_data'[t], s)
                          IN  /\ ~q.is_historical
                              /\ q.symbol = s
                              /\ q.price = LivePrice(live_info[t].info[s])
                              /\ d.items[Len(d.items)] = q
                  ELSE /\ Has(price_data'[t], s) <=> Has(price_data[t], s)
                       /\ Has(price_data[t], s) => Get(price_data'[t], s) = Get(price_data[t], s)
                       /\ new = old]_vars

\* C11 witness: the one cycle so far has made its live step; of the two
\* tracked symbols one got its quote and the other, which is a key, got none
C11_Witness ==
    \E t \in Sessions : \E a, b \in Symbols :
        /\ pc[t] = "upd_done"
        /\ cycles = 1
        /\ symbols[t] = <<"AAPL", "SPY">>
        /\ a # b
        /\ Has(price_data[t], a) /\ Has(price_data[t], b)
        /\ inserted[t][a] # <<>> /\ ~inserted[t][a][Len(inserted[t][a])].is_historical
        /\ \A i \in DOMAIN inserted[t][b] : inserted[t][b][i].is_historical

\* session t has called update_price_data and has not yet set last_update
Refreshing(t) == InCycle(t) \/ pc[t] \in {"upd_done", "stamp"}

\* C12: a cycle that has started comes to its end, and the session is then
\* past the call with last_update holding the time read at the end; the
\* step that ends a cycle sets last_update to the clock reading it takes.
C12_CycleCompletes ==
    /\ \A t \in Sessions :
          Refreshing(t) ~> (~Refreshing(t) /\ last_update[t] = now)
    /\ [][\A t \in Sessions :
             Refreshing(t) /\ ~Refreshing(t)' =>
                 last_update'[t] = now' /\ now' >= now]_vars

\* C12 witness: a cycle in which no fetch succeeded (both tracked symbols
\* have an empty deque) has ended and last_update holds the later time
C12_Witness ==
    \E t \in Sessions :
        /\ pc[t] = "idle"
        /\ cycles = 1
        /\ symbols[t] = <<"AAPL", "SPY">>
        /\ \A s \in Symbols : Has(price_data[t], s) /\ Get(price_data[t], s).items = <<>>
        /\ last_update[t] = MaxTime
        /\ now = MaxTime

\* session t calls update_price_data in this step
StartsCycle(t) == ~Refreshing(t) /\ pc'[t] = "upd_loop"

\* session t tracks the symbols it started with, and has tracked them all along
KeptList(t) == symbols[t] # <<>> /\ \A s \in Symbols : tracking[t][s] = "kept"

\* C13: a session that has kept its symbol list and has been through a cycle
\* starts another only on a manual request or when at least a refresh
\* interval has passed since last_update, whatever the previous cycle fetched.
C13_NoFetchBeforeInterval ==
    [][\A t \in Sessions :
          StartsCycle(t) /\ cycles >= 1 /\ KeptList(t) /\ symbols'[t] = symbols[t] =>
              caller'[t] = "manual" \/ now' - last_update[t] >= MinInterval]_vars

\* C14: when a cycle's live fetch has run, every symbol of the cycle has its
\* deque and no backfill is under way; and in every deque the historical
\* observations come before the live ones.
C14_HistoryBeforeLive ==
    \A t \in Sessions :
        /\ pc[t] = "live_append" =>
                /\ hist_args[t] = NoArgs
                /\ \A s \in Range(symbols[t]) : Has(price_data[t], s)
        /\ \A k \in DOMAIN price_data[t] :
                LET items == price_data[t][k].items
                IN  \A i, j \in DOMAIN items :
                        i < j /\ ~items[i].is_historical => ~items[j].is_historical

\* C14 witness: a symbol backfilled with one historical point and appended
\* to once has two entries, the first historical and the last live
C14_Witness ==
    \E t \in Sessions : \E s \in Keys(price_data[t]) :
        LET d == Get(price_data[t], s)
        IN  /\ Len(inserted[t][s]) = 2
            /\ Len(d.items) = 2
            /\ d.items[1].is_historical
            /\ ~d.items[2].is_historical

\* C15: in every deque the timestamps do not decrease from one observation
\* to the next.
C15_TimestampsNonDecreasing ==
    \A t \in Sessions : \A k \in DOMAIN price_data[t] :
        LET items == price_data[t][k].items
        IN  \A i \in 1..(Len(items) - 1) : items[i].timestamp <= items[i + 1].timestamp

\* the default interval the claim names for a period
ClaimedDefault(period) ==
    IF period \in {"1d", "5d"} THEN "15m"
    ELSE IF period \in {"1mo", "3mo"} THEN "1h"
    ELSE "1d"

\* C16: the stored (period, interval) pair is in the table of lines 223-231,
\* and so is the pair of every call of fetch_historical_data; for every
\* period and stored interval, the interval is kept if the period allows it
\* and is else replaced by the period's default: 15m for 1d and 5d, 1h for
\* 1mo and 3mo, 1d for the longer periods.
C16_PairInTable ==
    /\ \A t \in Sessions :
          /\ historical_period[t] \in Periods
          /\ historical_interval[t] \in interval_options(historical_period[t])
          /\ hist_args[t] # NoArgs =>
                /\ hist_args[t][1] \in Periods
                /\ hist_args[t][2] \in interval_options(hist_args[t][1])
    /\ \A period \in Periods : \A interval \in Intervals :
          LET c == CoerceInterval(period, interval)
          IN  /\ c \in interval_options(period)
              /\ interval \in interval_options(period) => c = interval
              /\ interval \notin interval_options(period) => c = ClaimedDefault(period)

\* C16 witness: the period was set to 1y while the stored interval was one
\* that 1y does not allow, the interval is now 1d, and a historical fetch
\* is being made
C16_Witness ==
    \E t \in Sessions :
        /\ coerced[t]
        /\ historical_period[t] = "1y"
        /\ historical_interval[t] = "1d"
        /\ hist_args[t] # NoArgs

\* C17: a call of fetch_historical_data is made with the session's configured
\* (period, interval) pair.
C17_FetchUsesConfiguredPair ==
    \A t \in Sessions :
        hist_args[t] # NoArgs =>
            hist_args[t] = <<historical_period[t], historical_interval[t]>>

\* a field of ticker.info yields a price: it is there and is not zero
Yields(v) == v # None /\ v # 0

\* the price the claim's chain picks from an answer of the provider: the
\* first of currentPrice and regularMarketPrice that yields one, else the
\* last close of the intraday history, None if that is empty too
ChainPrice(info) ==
    LET first == SelectSeq(<<info.currentPrice, info.regularMarketPrice>>, Yields)
    IN  IF first # <<>> THEN Head(first) ELSE info.lastClose

\* C18: when the provider has answered for a tracked symbol, the cycle's
\* quote for it has the price the chain picks, and the live step appends
\* that quote; when the chain picks none there is no quote for the symbol
\* and the live step appends nothing to its deque.
C18_PriceChain ==
    [][\A t \in Sessions : LiveStep(t) /\ ~live_info[t].fails =>
          \A s \in Range(symbols[t]) :
              LET info == live_info[t].info[s]
                  quotes == QuotesOf(new_prices[t], s)
              IN  ~info.raises =>
                      IF ChainPrice(info) = None
                      THEN quotes = <<>> /\ inserted'[t][s] = inserted[t][s]
                      ELSE /\ Len(quotes) = 1
                           /\ quotes[1].price = ChainPrice(info)
                           /\ ~quotes[1].is_historical
                           /\ inserted'[t][s] = Append(inserted[t][s], quotes[1])]_vars

\* C18 witness: the live fetch of a cycle has answered; for one symbol neither
\* currentPrice nor regularMarketPrice yields a price and the quote has the
\* last close, for the other none of the three does and there is no quote
C18_Witness ==
    \E t \in Sessions : \E a, b \in Range(symbols[t]) :
        /\ pc[t] = "live_append"
        /\ ~live_info[t].fails
        /\ LET info == live_info[t].info[a]
           IN  /\ ~info.raises
               /\ ~Yields(info.currentPrice) /\ ~Yields(info.regularMarketPrice)
               /\ info.lastClose # None
               /\ QuotesOf(new_prices[t], a) # <<>>
               /\ QuotesOf(new_prices[t], a)[1].price = info.lastClose
        /\ LET info == live_info[t].info[b]
           IN  /\ ~info.raises
               /\ ~Yields(info.currentPrice) /\ ~Yields(info.regularMarketPrice)
               /\ info.lastClose = None
               /\ QuotesOf(new_prices[t], b) = <<>>

\* the deque new is the deque old, or old after one append
KeepsObservations(old, new) ==
    \/ new.items = old.items
    \/ /\ Len(old.items) < old.maxlen
       /\ Len(new.items) = Len(old.items) + 1
       /\ SubSeq(new.items, 1, Len(old.items)) = old.items
    \/ /\ Len(old.items) = old.maxlen
       /\ Len(new.items) = old.maxlen
       /\ \A i \in 1..(old.maxlen - 1) : new.items[i] = old.items[i + 1]

\* C19: the deque of a symbol that stays tracked, once it holds an
\* observation, stays the symbol's deque, and a step takes an observation
\* out of it only by appending to it when it is full.
C19_BufferNeverReplaced ==
    [][\A t \in Sessions : \A s \in Keys(price_data[t]) \cap Range(symbols'[t]) :
          Get(price_data[t], s).items # <<>> =>
              /\ Has(price_data'[t], s)
              /\ KeepsObservations(Get(price_data[t], s), Get(price_data'[t], s))]_vars

====
